---- MODULE Spec2Model ----
(***************************************************************************)
(* Model of the openSAM generation tools:                                  *)
(*   tools/gen_height_variants.py  gen_variant(), check() and the          *)
(*                                 module-level generation loops           *)
(*   tools/indent_anim.py          the ANIM_begin/ANIM_end reformatter     *)
(*                                                                         *)
(* A text line is modelled by the facts the code tests on it (which        *)
(* substrings it contains, whether it starts with "#"); a height is an     *)
(* integer number of ten-thousandths, so that the "0.3f" formatting is a   *)
(* real rounding step.                                                     *)
(***************************************************************************)
EXTENDS Integers, Sequences, FiniteSets, TLC

VARIABLES gv, sc, ck, ia

vars == <<gv, sc, ck, ia>>

\* The frame of a program that is not running in the specification at hand.
Idle == [pc |-> "idle"]

-----------------------------------------------------------------------------
(* Bounds of the model                                                     *)

\* longest template handed to gen_variant
MaxLen == 4

-----------------------------------------------------------------------------
(* Text lines                                                              *)

\* A template line: sent_end / sent_begin say whether it contains
\* "# NO-openSAM_end" / "# NO-openSAM_begin", lod whether it contains "LOD",
\* hash whether it starts with "#", tok which of the two identifiers
\* ("AutoDGS", "opensam") it carries, "none" for neither.
TLine(e, b, lod, hash, tok) ==
    [kind |-> "tmpl", sent_end |-> e, sent_begin |-> b, lod |-> lod,
     hash |-> hash, tok |-> tok]

L_plain    == TLine(FALSE, FALSE, FALSE, FALSE, "none")     \* "VT 0 0 0 ..."
L_tok      == TLine(FALSE, FALSE, FALSE, FALSE, "AutoDGS")  \* "ANIM_show 1 1 AutoDGS/..."
L_lod      == TLine(FALSE, FALSE, TRUE,  FALSE, "none")     \* "ATTR_LOD 0 1000"
L_lodtok   == TLine(FALSE, FALSE, TRUE,  FALSE, "AutoDGS")  \* "ATTR_LOD 0 1000 # AutoDGS"
L_clod     == TLine(FALSE, FALSE, TRUE,  TRUE,  "none")     \* "# LOD 2"
L_begin    == TLine(FALSE, TRUE,  FALSE, TRUE,  "none")     \* "# NO-openSAM_begin"
L_end      == TLine(TRUE,  FALSE, FALSE, TRUE,  "none")     \* "# NO-openSAM_end"
L_endbegin == TLine(TRUE,  TRUE,  FALSE, TRUE,  "none")     \* both sentinels on one line

TemplateLines ==
    {L_plain, L_tok, L_lod, L_lodtok, L_clod, L_begin, L_end, L_endbegin}

\* A fixed string the code appends.
Lit(s) == [kind |-> "lit", text |-> s]

ANIM_end    == Lit("ANIM_end\n")
ANIM_begin  == Lit("ANIM_begin\n")
ANIM_rotate == Lit("    ANIM_rotate 0 1 0 180 180 0 1 no_ref\n")
ANIM_end_last == Lit("\nANIM_end\n")

\* Seqs of length 0..n over S
RECURSIVE SeqsUpTo(_, _)
SeqsUpTo(S, n) ==
    IF n = 0 THEN {<<>>}
    ELSE LET shorter == SeqsUpTo(S, n - 1)
         IN  shorter \cup {Append(s, x) : s \in {t \in shorter : Len(t) = n - 1}, x \in S}

Templates == SeqsUpTo(TemplateLines, MaxLen)

\* Heights in ten-thousandths of a metre: 0, exactly 0.03, 0.0304 (outside
\* the epsilon, formats to 0.030), -0.0306 (formats to -0.031), 2.5
Heights == {0, 300, 304, -306, 25000}

-----------------------------------------------------------------------------
(* gen_variant                                                             *)

\* 0.03, the no-op threshold, in ten-thousandths
EPS == 300

Abs(x) == IF x < 0 THEN -x ELSE x

\* f"{dh:0.3f}": the value rounded to three decimals, in thousandths
\* (no height of the model lies on a rounding tie)
Fmt3(dh) == IF dh < 0 THEN -((-dh + 5) \div 10) ELSE (dh + 5) \div 10

\* a rename that never happens
ReplaceNothing(l) == l

\* l.replace("AutoDGS", "opensam")
Replace(l) == IF l.tok = "AutoDGS" THEN [l EXCEPT !.tok = "opensam"] ELSE l

\* the offset left out of the "to" vector
AnimTransToZero(dh) ==
    [kind |-> "ANIM_trans",
     from |-> <<0, Fmt3(dh), 0>>, to |-> <<0, 0, 0>>,
     flags |-> <<0, 0>>, ref |-> "no_ref"]

\* the f-string of the translation directive:
\* ANIM_trans <from x y z> <to x y z> <flag> <flag> <ref>
AnimTrans(dh) ==
    [kind |-> "ANIM_trans",
     from |-> <<0, Fmt3(dh), 0>>, to |-> <<0, Fmt3(dh), 0>>,
     flags |-> <<0, 0>>, ref |-> "no_ref"]

\* the comment test forgotten
RotateWantedAlways(turn_180, l) == turn_180

\* turn_180 and not l.startswith("#")
RotateWanted(turn_180, l) == turn_180 /\ ~l.hash

\* the abs() forgotten
TransWantedNoAbs(dh) == ~(dh <= EPS)

\* the else branch of: if abs(dh) <= 0.03
TransWanted(dh) == ~(Abs(dh) <= EPS)

\* vlines.insert(0, x) in place of append
EmitFront(vlines, l, src) == <<[l |-> l, src |-> src]>> \o vlines

\* vlines.append(x); an entry keeps the line and src, the position of the
\* template line it derives from (0 for a line the code injects)
Emit(vlines, l, src) == Append(vlines, [l |-> l, src |-> src])

\* the lines appended after a "LOD" line
AfterLod(vlines, l, dh, turn_180) ==
    LET v1 == Emit(vlines, ANIM_begin, 0)
        v2 == IF RotateWanted(turn_180, l) THEN Emit(v1, ANIM_rotate, 0) ELSE v1
    IN  IF TransWanted(dh) THEN Emit(v2, AnimTrans(dh), 0) ELSE v2

\* One pass of "for l in lines" on the loop state st (first_lod,
\* n_no_opensam, vlines) with l = lines[idx]
GenLoopBody(st, l, idx, dh, turn_180) ==
    IF l.sent_end
    THEN [st EXCEPT !.n_no_opensam = @ - 1]
    ELSE LET n == IF l.sent_begin THEN st.n_no_opensam + 1 ELSE st.n_no_opensam
         IN  IF n > 0
             THEN [st EXCEPT !.n_no_opensam = n]
             ELSE LET l2 == Replace(l)
                      v1 == IF l2.lod /\ ~st.first_lod
                            THEN Emit(st.vlines, ANIM_end, 0) ELSE st.vlines
                      v2 == Emit(v1, l2, idx)
                  IN  IF l2.lod
                      THEN [first_lod |-> FALSE, n_no_opensam |-> n,
                            vlines |-> AfterLod(v2, l2, dh, turn_180)]
                      ELSE [st EXCEPT !.n_no_opensam = n, !.vlines = v2]

\* the state before the loop
GenStart == [first_lod |-> TRUE, n_no_opensam |-> 0, vlines |-> <<>>]

\* vlines.append("\nANIM_end\n")   # close last LOD
GenClose(vlines) == Emit(vlines, ANIM_end_last, 0)

\* gen_variant as a function: the lines written to v_name
RECURSIVE GenRun(_, _, _, _, _)
GenRun(st, lines, idx, dh, turn_180) ==
    IF idx > Len(lines) THEN st
    ELSE GenRun(GenLoopBody(st, lines[idx], idx, dh, turn_180), lines, idx + 1, dh, turn_180)

GenVariant(lines, height, turn_180) ==
    GenClose(GenRun(GenStart, lines, 1, height, turn_180).vlines)

\* gen_variant, one loop pass per step
GenInit ==
    /\ gv \in {[pc |-> "loop", lines |-> t, height |-> h, turn_180 |-> m,
                i |-> 1, st |-> GenStart, out |-> <<>>] :
               t \in Templates, h \in Heights, m \in BOOLEAN}
    /\ sc = Idle /\ ck = Idle /\ ia = Idle

GenCur == gv.lines[gv.i]

GenStep ==
    gv' = [gv EXCEPT !.i = @ + 1,
                     !.st = GenLoopBody(gv.st, GenCur, gv.i, gv.height, gv.turn_180)]

\* an end sentinel: n_no_opensam -= 1; continue
GenEndSentinel ==
    /\ gv.pc = "loop" /\ gv.i <= Len(gv.lines)
    /\ GenCur.sent_end
    /\ GenStep
    /\ UNCHANGED <<sc, ck, ia>>

\* a line inside the exclusion region: continue
GenSkip ==
    /\ gv.pc = "loop" /\ gv.i <= Len(gv.lines)
    /\ ~GenCur.sent_end
    /\ gv.st.n_no_opensam + (IF GenCur.sent_begin THEN 1 ELSE 0) > 0
    /\ GenStep
    /\ UNCHANGED <<sc, ck, ia>>

\* a line that is kept
GenKeep ==
    /\ gv.pc = "loop" /\ gv.i <= Len(gv.lines)
    /\ ~GenCur.sent_end
    /\ gv.st.n_no_opensam + (IF GenCur.sent_begin THEN 1 ELSE 0) <= 0
    /\ GenStep
    /\ UNCHANGED <<sc, ck, ia>>

\* after the loop: the final close, and the file is written
GenWrite ==
    /\ gv.pc = "loop" /\ gv.i > Len(gv.lines)
    /\ gv' = [gv EXCEPT !.pc = "done", !.out = GenClose(gv.st.vlines)]
    /\ UNCHANGED <<sc, ck, ia>>

GenNext == GenEndSentinel \/ GenSkip \/ GenKeep \/ GenWrite

SpecGen == GenInit /\ [][GenNext]_vars

-----------------------------------------------------------------------------
(* Vocabulary of the gen_variant properties                                *)

GenDone == gv.pc = "done"

\* the lines appended so far, and those of the written file once done
GenOut == IF GenDone THEN gv.out ELSE gv.st.vlines

IsDerived(e)  == e.src # 0
IsInjected(e) == e.src = 0

\* positions of the output holding an injected copy of one of the lines ls
InjectedAt(out, ls) == {p \in 1..Len(out) : IsInjected(out[p]) /\ out[p].l \in ls}

\* positions of the output holding an injected translation directive
TransAt(out) ==
    {p \in 1..Len(out) : IsInjected(out[p]) /\ out[p].l.kind = "ANIM_trans"}

\* positions of the output holding a processed section-marker (LOD) line
MarkerAt(out) == {p \in 1..Len(out) : IsDerived(out[p]) /\ out[p].l.lod}

\* the injected lines that directly follow position p
RunAfter(out, p) ==
    {q \in (p + 1)..Len(out) : \A r \in (p + 1)..q : IsInjected(out[r])}

\* The exclusion counter after template line i, counted from the template:
\* begin sentinels up to i minus end sentinels up to i (a line holding both
\* sentinels is an end sentinel to the code)
Depth(lines, i) ==
    Cardinality({k \in 1..i : lines[k].sent_begin /\ ~lines[k].sent_end})
    - Cardinality({k \in 1..i : lines[k].sent_end})

\* template positions the exclusion handling lets through
KeptIdx(lines) ==
    SelectSeq([i \in 1..Len(lines) |-> i],
              LAMBDA i : ~lines[i].sent_end /\ Depth(lines, i) <= 0)

DerivedOf(out) == SelectSeq(out, IsDerived)

-----------------------------------------------------------------------------
(* Properties of gen_variant                                               *)

\* C1: the number of injected section-closing directives (ANIM_end, the
\* final one included) equals the number of section-marker lines processed.
C1_ClosesEqualMarkers ==
    GenDone =>
        Cardinality(InjectedAt(gv.out, {ANIM_end, ANIM_end_last}))
            = Cardinality(MarkerAt(gv.out))

\* C2: with turn_180 every processed non-comment marker line is followed by
\* its ANIM_begin and then exactly one ANIM_rotate, ahead of any translation
\* directive; comment marker lines get none; without turn_180 there is none.
C2_RotatePerMarker ==
    GenDone =>
        LET out == gv.out
            rot == InjectedAt(out, {ANIM_rotate})
        IN  /\ ~gv.turn_180 => rot = {}
            /\ gv.turn_180 =>
                 \A p \in MarkerAt(out) :
                    /\ p + 1 \in InjectedAt(out, {ANIM_begin})
                    /\ rot \cap RunAfter(out, p)
                         = IF out[p].l.hash THEN {} ELSE {p + 2}
                    /\ \A q \in TransAt(out) \cap RunAfter(out, p) :
                          \A r \in rot \cap RunAfter(out, p) : r < q
            /\ \A r \in rot : \E p \in MarkerAt(out) : r \in RunAfter(out, p)

C2_Witness ==
    /\ GenDone /\ gv.turn_180 /\ TransAt(gv.out) # {}
    /\ \E p, q \in MarkerAt(gv.out) : gv.out[p].l.hash /\ ~gv.out[q].l.hash
    /\ InjectedAt(gv.out, {ANIM_rotate}) # {}

\* the end sentinel that closes the begin sentinel at b
MatchingEnd(lines, b) ==
    {e \in (b + 1)..Len(lines) :
        /\ lines[e].sent_end
        /\ Depth(lines, e) = Depth(lines, b) - 1
        /\ \A k \in (b + 1)..(e - 1) : Depth(lines, k) >= Depth(lines, b)}

IsBegin(lines, b) == lines[b].sent_begin /\ ~lines[b].sent_end

InRegion(lines, i) ==
    \E b \in 1..(i - 1) :
        IsBegin(lines, b) /\ \E e \in MatchingEnd(lines, b) : i < e

\* C4: no sentinel line and no line between a begin sentinel and its
\* matching end sentinel reaches the output, and a line outside every
\* region is emitted.
C4_ExclusionSkipped ==
    GenDone =>
        /\ \A p \in 1..Len(gv.out) :
              IsDerived(gv.out[p]) =>
                 /\ ~gv.out[p].l.sent_end /\ ~gv.out[p].l.sent_begin
                 /\ ~InRegion(gv.lines, gv.out[p].src)
        /\ \A i \in 1..Len(gv.lines) :
              (/\ ~gv.lines[i].sent_end /\ ~gv.lines[i].sent_begin
               /\ \A b \in 1..(i - 1) :
                     IsBegin(gv.lines, b) =>
                        \E e \in MatchingEnd(gv.lines, b) : e < i)
              => \E p \in 1..Len(gv.out) : gv.out[p].src = i

\* C5: within the epsilon no translation directive is injected; outside
\* it exactly one follows each processed marker line, and no other.
C5_TransOnlyOutsideEps ==
    GenDone =>
        LET out == gv.out
        IN  /\ Abs(gv.height) <= EPS => TransAt(out) = {}
            /\ Abs(gv.height) > EPS =>
                 /\ \A p \in MarkerAt(out) :
                       Cardinality(TransAt(out) \cap RunAfter(out, p)) = 1
                 /\ Cardinality(TransAt(out)) = Cardinality(MarkerAt(out))

C5_Witness ==
    /\ GenDone /\ gv.height = EPS + 4
    /\ Cardinality(MarkerAt(gv.out)) = 2
    /\ Cardinality(TransAt(gv.out)) = 2

\* C6: an injected translation directive carries the height offset,
\* rounded to thousandths, in the second slot of both vectors, zero in the
\* other four slots and in both flags, and the reference no_ref.
C6_TransSlots ==
    \A p \in TransAt(GenOut) :
        LET t == GenOut[p].l
        IN  /\ Abs(10 * t.from[2] - gv.height) <= 5
            /\ t.to[2] = t.from[2]
            /\ t.from[1] = 0 /\ t.from[3] = 0
            /\ t.to[1] = 0 /\ t.to[3] = 0
            /\ t.flags = <<0, 0>>
            /\ t.ref = "no_ref"

C6_Witness ==
    /\ GenDone /\ gv.height = -306
    /\ \E p \in TransAt(gv.out) : gv.out[p].l.from[2] = -31

\* C7 as stated: with height 0 and turn_180 unset the output is the
\* template, line for line, with AutoDGS renamed.
C7_RoundTrip ==
    (GenDone /\ gv.height = 0 /\ ~gv.turn_180) =>
        [p \in 1..Len(gv.out) |-> gv.out[p].l]
            = [i \in 1..Len(gv.lines) |-> Replace(gv.lines[i])]

\* C7 amended: with height 0 and turn_180 unset the output is the template
\* with AutoDGS renamed, less the lines the exclusion counter drops, plus
\* the section directives: ANIM_begin after every marker line, ANIM_end
\* before every marker line but the first, one final ANIM_end; no rotation
\* and no translation directive.
C7_RoundTripUpToSections ==
    (GenDone /\ gv.height = 0 /\ ~gv.turn_180) =>
        LET out  == gv.out
            d    == DerivedOf(out)
            kept == KeptIdx(gv.lines)
            mk   == MarkerAt(out)
        IN  /\ Len(d) = Len(kept)
            /\ \A j \in 1..Len(d) :
                  /\ d[j].src = kept[j]
                  /\ d[j].l = [gv.lines[kept[j]] EXCEPT
                                 !.tok = IF @ = "AutoDGS" THEN "opensam" ELSE @]
            /\ \A p \in 1..Len(out) :
                  IsInjected(out[p]) =>
                     out[p].l \in {ANIM_begin, ANIM_end, ANIM_end_last}
            /\ InjectedAt(out, {ANIM_begin}) = {p + 1 : p \in mk}
            /\ InjectedAt(out, {ANIM_end})
                 = {p - 1 : p \in {q \in mk : \E r \in mk : r < q}}
            /\ InjectedAt(out, {ANIM_end_last}) = {Len(out)}

C7_Witness ==
    /\ GenDone /\ gv.height = 0 /\ ~gv.turn_180
    /\ MarkerAt(gv.out) # {}
    /\ \E p \in 1..Len(gv.out) : gv.out[p].l = [L_tok EXCEPT !.tok = "opensam"]
    /\ \E i \in 1..Len(gv.lines) : gv.lines[i] = L_begin
    /\ Len(KeptIdx(gv.lines)) < Len(gv.lines)

\* C9: the lines that derive from the template keep the template's order
\* and are its renamed lines: lines are added or removed, never reordered.
C9_OrderKept ==
    LET d == DerivedOf(GenOut)
    IN  /\ \A j \in 1..Len(d) :
              /\ d[j].src \in 1..Len(gv.lines)
              /\ d[j].l = [gv.lines[d[j].src] EXCEPT
                             !.tok = IF @ = "AutoDGS" THEN "opensam" ELSE @]
        /\ \A j, k \in 1..Len(d) : j < k => d[j].src < d[k].src

C9_Witness ==
    /\ GenDone
    /\ Len(DerivedOf(gv.out)) = 3
    /\ Len(gv.lines) = 4
    /\ MarkerAt(gv.out) # {}

-----------------------------------------------------------------------------
(* check(): the manifest checker                                           *)

\* longest library.txt handed to check()
MaxManifest == 4

\* f"Safedock-T2-24_{h:0.1f}m" and its "_pole" form; h in tenths
VName(h, pole) == [h |-> h, pole |-> pole]

\* f"dgs/{name}.obj", f"dgs/{name}_180.obj", f"dgs/{name}.agp", ...
FileName(name, s180, ext) ==
    [dir |-> "dgs", name |-> name, s180 |-> s180, ext |-> ext]

\* three relative paths a library.txt may name
P_obj   == FileName(VName(25, FALSE), FALSE, "obj")
P_agp   == FileName(VName(25, TRUE), TRUE, "agp")
P_other == [dir |-> "dgs", file |-> "Marshaller.obj"]

Paths == {P_obj, P_agp, P_other}

\* A line of library.txt: whether it starts with "EXPORT", and w, what
\* l.split() gives from index 2 on (empty when the line has fewer than
\* three tokens)
MLine(export, w) == [export |-> export, w |-> w]

ManifestLines ==
    {MLine(TRUE, <<p>>) : p \in Paths}
        \cup {MLine(FALSE, <<P_obj>>), MLine(TRUE, <<>>)}

Manifests == SeqsUpTo(ManifestLines, MaxManifest)

Range(f) == {f[x] : x \in DOMAIN f}

\* all orderings of a finite set, as sequences
RECURSIVE Orderings(_)
Orderings(S) ==
    IF S = {} THEN {<<>>}
    ELSE UNION {{<<x>> \o t : t \in Orderings(S \ {x})} : x \in S}

\* the list left as it is
UniqueNot(files) == {files}

\* list(set(files)): the distinct entries, in an order the set decides
Unique(files) == Orderings(Range(files))

\* the frame of check() as it is entered: library.txt as it is read, and
\* exists, the relative paths present under target_dir
CheckStart(library, exists) ==
    [pc |-> "read", library |-> library, exists |-> exists, i |-> 1,
     files |-> <<>>, j |-> 1, res |-> TRUE, printed |-> <<>>]

CheckInit ==
    /\ ck \in {CheckStart(m, e) : m \in Manifests, e \in SUBSET Paths}
    /\ gv = Idle /\ sc = Idle /\ ia = Idle

\* if not l.startswith("EXPORT"): continue
CheckSkipLine ==
    /\ ck.pc = "read" /\ ck.i <= Len(ck.library)
    /\ ~ck.library[ck.i].export
    /\ ck' = [ck EXCEPT !.i = @ + 1]
    /\ UNCHANGED <<gv, sc, ia>>

\* w = l.split(); files.append(w[2])
CheckCollect ==
    /\ ck.pc = "read" /\ ck.i <= Len(ck.library)
    /\ ck.library[ck.i].export
    /\ ck.library[ck.i].w # <<>>
    /\ ck' = [ck EXCEPT !.i = @ + 1, !.files = Append(@, ck.library[ck.i].w[1])]
    /\ UNCHANGED <<gv, sc, ia>>

\* w[2] on a line of fewer than three tokens: IndexError, check() is left
CheckRaise ==
    /\ ck.pc = "read" /\ ck.i <= Len(ck.library)
    /\ ck.library[ck.i].export
    /\ ck.library[ck.i].w = <<>>
    /\ ck' = [ck EXCEPT !.pc = "raised"]
    /\ UNCHANGED <<gv, sc, ia>>

\* files = list(set(files))
CheckUnique ==
    /\ ck.pc = "read" /\ ck.i > Len(ck.library)
    /\ \E u \in Unique(ck.files) : ck' = [ck EXCEPT !.pc = "scan", !.files = u]
    /\ UNCHANGED <<gv, sc, ia>>

\* if not os.path.exists(ff): print(...); res = False
CheckMissing ==
    /\ ck.pc = "scan" /\ ck.j <= Len(ck.files)
    /\ ck.files[ck.j] \notin ck.exists
    /\ ck' = [ck EXCEPT !.j = @ + 1, !.res = FALSE,
                        !.printed = Append(@, [msg |-> "Does not exist",
                                               ff |-> ck.files[ck.j]])]
    /\ UNCHANGED <<gv, sc, ia>>

CheckPresent ==
    /\ ck.pc = "scan" /\ ck.j <= Len(ck.files)
    /\ ck.files[ck.j] \in ck.exists
    /\ ck' = [ck EXCEPT !.j = @ + 1]
    /\ UNCHANGED <<gv, sc, ia>>

\* if res: print("All files in library.txt exist")
CheckReturn ==
    /\ ck.pc = "scan" /\ ck.j > Len(ck.files)
    /\ ck' = [ck EXCEPT !.pc = "done",
                        !.printed = IF ck.res
                                    THEN Append(@, [msg |-> "All files in library.txt exist"])
                                    ELSE @]
    /\ UNCHANGED <<gv, sc, ia>>

CheckNext ==
    \/ CheckSkipLine \/ CheckCollect \/ CheckRaise \/ CheckUnique
    \/ CheckMissing \/ CheckPresent \/ CheckReturn

SpecCheck == CheckInit /\ [][CheckNext]_vars

\* the paths the EXPORT lines of a manifest reference
Referenced(library) ==
    {library[i].w[1] :
        i \in {k \in 1..Len(library) : library[k].export /\ library[k].w # <<>>}}

DiagsFor(printed, path) ==
    {q \in 1..Len(printed) :
        printed[q].msg = "Does not exist" /\ printed[q].ff = path}

PassLines(printed) ==
    {q \in 1..Len(printed) : printed[q].msg = "All files in library.txt exist"}

\* C8: check(), when it returns, has printed one "Does not exist" line for
\* each referenced path that is missing, once however often the path is
\* referenced, none for any other path, and the pass line exactly when
\* nothing is missing.
C8_CheckReportsMissing ==
    ck.pc = "done" =>
        LET missing == Referenced(ck.library) \ ck.exists
        IN  /\ \A path \in missing : Cardinality(DiagsFor(ck.printed, path)) = 1
            /\ \A q \in 1..Len(ck.printed) :
                  ck.printed[q].msg = "Does not exist" => ck.printed[q].ff \in missing
            /\ Cardinality(PassLines(ck.printed)) = IF missing = {} THEN 1 ELSE 0

C8_Witness ==
    /\ ck.pc = "done"
    /\ Cardinality(Referenced(ck.library)) = 2
    /\ Cardinality(Referenced(ck.library) \ ck.exists) = 1
    /\ \E a, b \in 1..Len(ck.library) :
          /\ a < b /\ ck.library[a] = ck.library[b] /\ ck.library[a].export
          /\ ck.library[a].w[1] \notin ck.exists
    /\ \E c \in 1..Len(ck.library) : ~ck.library[c].export
    /\ Len(ck.printed) = 1

-----------------------------------------------------------------------------
(* The module-level generation script of gen_height_variants.py            *)

\* f"{h:0.1f}": the height rounded to one decimal, in tenths
Fmt1(h) == (h + 500) \div 1000

\* the height lists of the loops, in ten-thousandths of a metre
HeightsObj      == <<0, 25000, 30000, 35000, 40000, 45000, 50000, 55000, 60000, 65000, 70000>>
HeightsObj180   == <<25000, 30000, 35000, 40000, 45000, 50000, 55000, 60000, 65000, 70000>>
HeightsPole     == <<0, 25000, 30000, 35000, 40000, 45000, 50000, 60000>>
HeightsPole180  == <<25000, 30000, 35000, 40000, 45000, 50000, 60000>>

\* AGP.format(obj) and AGP_180.format(obj): the descriptor text, by its
\* ROTATION line and its OBJECT line
AGP(obj)     == [by |-> "AGP", rotation |-> 0, object |-> obj]
AGP_180(obj) == [by |-> "AGP_180", rotation |-> 2, object |-> obj]

\* the two texture files copied to f"{target_dir}/dgs/"
TexFiles == <<[dir |-> "dgs", file |-> "Safedock-T2-24.png"],
              [dir |-> "dgs", file |-> "Safedock-T2-24_LIT.png"]>>

\* contents the two template files may have
ScriptTemplates == {<<>>, <<L_lod, L_tok>>, <<L_clod, L_plain, L_lod>>}

\* open(path, "w").write(...): the file system with one file (re)written
WriteFile(fs, fn, content) == (fn :> content) @@ fs

\* what gen_variant(master, v_name, height, turn_180) leaves in v_name,
\* with the call that wrote it
ObjFile(master, lines, height, turn_180) ==
    [by |-> "gen_variant", master |-> master, height |-> height,
     turn_180 |-> turn_180, data |-> GenVariant(lines, height, turn_180)]

ScriptInit ==
    /\ sc \in {[pc |-> 1, k |-> 1, tmpl_obj |-> t, tmpl_obj_pole |-> tp,
                fs |-> [x \in pre |-> [by |-> "earlier"]],
                gen_files |-> <<>>, printed |-> <<>>] :
               t \in ScriptTemplates, tp \in ScriptTemplates,
               pre \in SUBSET {P_other}}
    /\ gv = Idle /\ ck = Idle /\ ia = Idle

\* one pass of loop number n over hs; the pass after the last one leaves
\* the loop
ScriptPass(n, hs, fn, content) ==
    sc' = [sc EXCEPT !.pc = IF sc.k = Len(hs) THEN n + 1 ELSE n,
                     !.k  = IF sc.k = Len(hs) THEN 1 ELSE sc.k + 1,
                     !.fs = WriteFile(@, fn, content),
                     !.gen_files = Append(@, fn)]

\* for h in [0, 2.5, ... 7]: gen_variant(tmpl_obj, ".../{name}.obj", h)
LoopObj ==
    /\ sc.pc = 1
    /\ LET h == HeightsObj[sc.k]
       IN  ScriptPass(1, HeightsObj,
                      FileName(VName(Fmt1(h), FALSE), FALSE, "obj"),
                      ObjFile("tmpl_obj", sc.tmpl_obj, h, FALSE))
    /\ UNCHANGED <<gv, ck, ia>>

\* for h in [2.5, ... 7]: gen_variant(tmpl_obj, ".../{name}_180.obj", h, True)
LoopObj180 ==
    /\ sc.pc = 2
    /\ LET h == HeightsObj180[sc.k]
       IN  ScriptPass(2, HeightsObj180,
                      FileName(VName(Fmt1(h), FALSE), TRUE, "obj"),
                      ObjFile("tmpl_obj", sc.tmpl_obj, h, TRUE))
    /\ UNCHANGED <<gv, ck, ia>>

\* for h in [2.5, ... 7]: write AGP.format(f"{name}.obj") to {name}.agp
LoopAgp ==
    /\ sc.pc = 3
    /\ LET name == VName(Fmt1(HeightsObj180[sc.k]), FALSE)
       IN  ScriptPass(3, HeightsObj180, FileName(name, FALSE, "agp"),
                      AGP(FileName(name, FALSE, "obj")))
    /\ UNCHANGED <<gv, ck, ia>>

\* for h in [2.5, ... 7]: write AGP_180.format(f"{name}.obj") to {name}_180.agp
LoopAgp180 ==
    /\ sc.pc = 4
    /\ LET name == VName(Fmt1(HeightsObj180[sc.k]), FALSE)
       IN  ScriptPass(4, HeightsObj180, FileName(name, TRUE, "agp"),
                      AGP_180(FileName(name, FALSE, "obj")))
    /\ UNCHANGED <<gv, ck, ia>>

\* for h in [0, 2.5, ... 6]: gen_variant(tmpl_obj_pole, ".../{name}.obj", h)
LoopPole ==
    /\ sc.pc = 5
    /\ LET h == HeightsPole[sc.k]
       IN  ScriptPass(5, HeightsPole,
                      FileName(VName(Fmt1(h), TRUE), FALSE, "obj"),
                      ObjFile("tmpl_obj_pole", sc.tmpl_obj_pole, h, FALSE))
    /\ UNCHANGED <<gv, ck, ia>>

\* for h in [2.5, ... 6]: gen_variant(tmpl_obj_pole, ".../{name}_180.obj", h)
LoopPole180 ==
    /\ sc.pc = 6
    /\ LET h == HeightsPole180[sc.k]
       IN  ScriptPass(6, HeightsPole180,
                      FileName(VName(Fmt1(h), TRUE), TRUE, "obj"),
                      ObjFile("tmpl_obj_pole", sc.tmpl_obj_pole, h, FALSE))
    /\ UNCHANGED <<gv, ck, ia>>

\* for h in [2.5, ... 6]: write AGP.format(f"{name}.obj") to {name}.agp
LoopPoleAgp ==
    /\ sc.pc = 7
    /\ LET name == VName(Fmt1(HeightsPole180[sc.k]), TRUE)
       IN  ScriptPass(7, HeightsPole180, FileName(name, FALSE, "agp"),
                      AGP(FileName(name, FALSE, "obj")))
    /\ UNCHANGED <<gv, ck, ia>>

\* for h in [2.5, ... 6]: write AGP_180.format(f"{name}.obj") to {name}_180.agp
LoopPoleAgp180 ==
    /\ sc.pc = 8
    /\ LET name == VName(Fmt1(HeightsPole180[sc.k]), TRUE)
       IN  ScriptPass(8, HeightsPole180, FileName(name, TRUE, "agp"),
                      AGP_180(FileName(name, FALSE, "obj")))
    /\ UNCHANGED <<gv, ck, ia>>

\* print("\n".join(gen_files))
PrintGenFiles ==
    /\ sc.pc = 9
    /\ sc' = [sc EXCEPT !.pc = 10, !.k = 1,
                        !.printed = Append(@, [msg |-> "gen_files", files |-> sc.gen_files])]
    /\ UNCHANGED <<gv, ck, ia>>

\* for f in tex_files: ft = shutil.copy(f, ...); print(f"Copied: '{ft}'")
CopyTex ==
    /\ sc.pc = 10
    /\ sc' = [sc EXCEPT !.pc = IF sc.k = Len(TexFiles) THEN 11 ELSE 10,
                        !.k  = IF sc.k = Len(TexFiles) THEN 1 ELSE sc.k + 1,
                        !.fs = WriteFile(@, TexFiles[sc.k], [by |-> "copy"]),
                        !.printed = Append(@, [msg |-> "Copied", ft |-> TexFiles[sc.k]])]
    /\ UNCHANGED <<gv, ck, ia>>

\* check(): entered with library.txt as it is found and the files now
\* under target_dir
CallCheck ==
    /\ sc.pc = 11
    /\ \E m \in Manifests : ck' = CheckStart(m, DOMAIN sc.fs)
    /\ sc' = [sc EXCEPT !.pc = 12]
    /\ UNCHANGED <<gv, ia>>

\* check() has returned: the script ends
ScriptEnd ==
    /\ sc.pc = 12 /\ ck.pc = "done"
    /\ sc' = [sc EXCEPT !.pc = 13]
    /\ UNCHANGED <<gv, ck, ia>>

\* the IndexError of check() is caught nowhere: the script dies
ScriptAbort ==
    /\ sc.pc = 12 /\ ck.pc = "raised"
    /\ sc' = [sc EXCEPT !.pc = 14]
    /\ UNCHANGED <<gv, ck, ia>>

ScriptNext ==
    \/ LoopObj \/ LoopObj180 \/ LoopAgp \/ LoopAgp180
    \/ LoopPole \/ LoopPole180 \/ LoopPoleAgp \/ LoopPoleAgp180
    \/ PrintGenFiles \/ CopyTex \/ CallCheck \/ ScriptEnd \/ ScriptAbort
    \/ CheckSkipLine \/ CheckCollect \/ CheckRaise \/ CheckUnique
    \/ CheckMissing \/ CheckPresent \/ CheckReturn

SpecScript == ScriptInit /\ [][ScriptNext]_vars

\* C3: an object file written under a "_180" name was produced by
\* gen_variant with turn_180 set, and one written without the suffix with
\* turn_180 unset.
C3_SuffixMeansMirror ==
    \A fn \in DOMAIN sc.fs :
        sc.fs[fn].by = "gen_variant" => (sc.fs[fn].turn_180 <=> fn.s180)

-----------------------------------------------------------------------------
(* indent_anim.py: the indentation reformatter                             *)

\* longest input handed to the reformatter
MaxIndentLines == 5

\* An input line: whether it contains "ANIM_begin", whether it contains
\* "ANIM_end"
ILine(b, e) == [anim_begin |-> b, anim_end |-> e]

IndentLines == {ILine(b, e) : b \in BOOLEAN, e \in BOOLEAN}

IndentInputs == SeqsUpTo(IndentLines, MaxIndentLines)

\* the step of the indent level
IndentStep == 4

\* " " * indent: the number of blanks (none for a negative count)
Blanks(indent) == IF indent < 0 THEN 0 ELSE indent

\* f.write(" " * indent + l): what is written keeps the blanks put in
\* front, the line and its position in the input
Write(written, indent, l, src) ==
    Append(written, [blanks |-> Blanks(indent), l |-> l, src |-> src])

\* the "ANIM_end" branch decrementing after the write
IndentLoopBodyLate(st, l, src) ==
    IF l.anim_begin
    THEN [indent |-> st.indent + IndentStep,
          written |-> Write(st.written, st.indent, l, src)]
    ELSE IF l.anim_end
    THEN [indent |-> st.indent - IndentStep,
          written |-> Write(st.written, st.indent, l, src)]
    ELSE [st EXCEPT !.written = Write(@, st.indent, l, src)]

\* one pass of "for l in lines" on (indent, written)
IndentLoopBody(st, l, src) ==
    IF l.anim_begin
    THEN [indent |-> st.indent + IndentStep,
          written |-> Write(st.written, st.indent, l, src)]
    ELSE IF l.anim_end
    THEN [indent |-> st.indent - IndentStep,
          written |-> Write(st.written, st.indent - IndentStep, l, src)]
    ELSE [st EXCEPT !.written = Write(@, st.indent, l, src)]

IndentInit ==
    /\ ia \in {[pc |-> "loop", lines |-> t, i |-> 1,
                st |-> [indent |-> 0, written |-> <<>>]] : t \in IndentInputs}
    /\ gv = Idle /\ sc = Idle /\ ck = Idle

IndentStepTo ==
    ia' = [ia EXCEPT !.i = @ + 1,
                     !.st = IndentLoopBody(ia.st, ia.lines[ia.i], ia.i)]

\* if "ANIM_begin" in l
IndentBegin ==
    /\ ia.pc = "loop" /\ ia.i <= Len(ia.lines)
    /\ ia.lines[ia.i].anim_begin
    /\ IndentStepTo
    /\ UNCHANGED <<gv, sc, ck>>

\* elif "ANIM_end" in l
IndentEnd ==
    /\ ia.pc = "loop" /\ ia.i <= Len(ia.lines)
    /\ ~ia.lines[ia.i].anim_begin /\ ia.lines[ia.i].anim_end
    /\ IndentStepTo
    /\ UNCHANGED <<gv, sc, ck>>

\* else
IndentOther ==
    /\ ia.pc = "loop" /\ ia.i <= Len(ia.lines)
    /\ ~ia.lines[ia.i].anim_begin /\ ~ia.lines[ia.i].anim_end
    /\ IndentStepTo
    /\ UNCHANGED <<gv, sc, ck>>

\* the input is exhausted
IndentExit ==
    /\ ia.pc = "loop" /\ ia.i > Len(ia.lines)
    /\ ia' = [ia EXCEPT !.pc = "done"]
    /\ UNCHANGED <<gv, sc, ck>>

IndentNext == IndentBegin \/ IndentEnd \/ IndentOther \/ IndentExit

SpecIndent == IndentInit /\ [][IndentNext]_vars

\* A begin-marker line is one holding "ANIM_begin", an end-marker line one
\* holding "ANIM_end" and no "ANIM_begin".
IsOpen(l)  == l.anim_begin
IsClose(l) == l.anim_end /\ ~l.anim_begin

\* begin-marker lines less end-marker lines among the first i lines
Balance(lines, i) ==
    Cardinality({k \in 1..i : IsOpen(lines[k])})
    - Cardinality({k \in 1..i : IsClose(lines[k])})

\* balanced and properly nested
WellNested(lines) ==
    /\ \A i \in 1..Len(lines) : Balance(lines, i) >= 0
    /\ Balance(lines, Len(lines)) = 0

\* the number of sections open around line i
NestDepth(lines, i) ==
    IF IsClose(lines[i]) THEN Balance(lines, i) ELSE Balance(lines, i - 1)

\* the end-marker line closing the begin-marker line b
ClosingOf(lines, b) ==
    {e \in (b + 1)..Len(lines) :
        /\ IsClose(lines[e])
        /\ Balance(lines, e) = Balance(lines, b - 1)
        /\ \A k \in b..(e - 1) : Balance(lines, k) > Balance(lines, b - 1)}

\* C10: on balanced, properly nested input the indent level is a
\* non-negative multiple of 4 at every step, every line is written once, in
\* input order, behind 4 blanks per nesting level, a begin-marker line and
\* its end-marker line get the same indent, and the level ends at 0.
C10_IndentFollowsNesting ==
    WellNested(ia.lines) =>
        LET w == ia.st.written
        IN  /\ ia.st.indent >= 0 /\ ia.st.indent % 4 = 0
            /\ Len(w) = ia.i - 1
            /\ \A j \in 1..Len(w) :
                  /\ w[j].src = j /\ w[j].l = ia.lines[j]
                  /\ w[j].blanks = 4 * NestDepth(ia.lines, j)
            /\ \A b \in 1..Len(w) :
                  IsOpen(ia.lines[b]) =>
                     \A e \in ClosingOf(ia.lines, b) :
                        e <= Len(w) => w[e].blanks = w[b].blanks
            /\ ia.pc = "done" => ia.st.indent = 0

C10_Witness ==
    /\ ia.pc = "done" /\ WellNested(ia.lines) /\ Len(ia.lines) = 5
    /\ \E b \in 1..Len(ia.lines) :
          /\ IsOpen(ia.lines[b]) /\ NestDepth(ia.lines, b) = 1
          /\ \E e \in ClosingOf(ia.lines, b) : ia.st.written[e].blanks = 4
    /\ \E j \in 1..Len(ia.lines) :
          ~IsOpen(ia.lines[j]) /\ ~IsClose(ia.lines[j]) /\ ia.st.written[j].blanks = 8

====
